---------------------------- MODULE Spec2Model ----------------------------
(***************************************************************************)
(* A model of the APS Calculator front end (src/src/App.tsx,               *)
(* src/src/components/Sidebar.tsx, src/src/components/Results.tsx) and of  *)
(* the interface of its simulation back end.                               *)
(*                                                                         *)
(* Representation of values.                                               *)
(*   - A JavaScript number held in a real-valued field (decision limits,   *)
(*     thresholds, boundaries, step sizes, grid coordinates, metrics       *)
(*     times 100) is an integer count of TENTHS: 33.3 is 333, 0.5 is 5.    *)
(*     A metric fraction in [0,1] is held in thousandths, so that the      *)
(*     code's "fraction * 100" is the same integer read as tenths of a     *)
(*     percent.                                                            *)
(*   - Integer-valued fields (sampleSize, dataCount, decimalPlaces, the    *)
(*     progress percentage) are held in units.                             *)
(*   - NaN is the distinguished number NaN; every comparison with it is    *)
(*     false, as in JavaScript.                                            *)
(*   - "T | null" is a sequence of length at most one: Null is <<>> and    *)
(*     a value v is <<v>>.                                                 *)
(*   - The text of an <input type="number"> is <<>> for the empty field    *)
(*     and <<n>> for the decimal numeral of n tenths.                      *)
(***************************************************************************)
EXTENDS Integers, Sequences, FiniteSets, TLC

VARIABLES
    state,          \* App.tsx: the AppState record held by useState
    columns,        \* App.tsx: string[] of the loaded file's columns
    results,        \* App.tsx: SimulationResult | null
    originalData,   \* App.tsx: number[] | null
    dataCount,      \* App.tsx: number | null
    isSimulating,   \* App.tsx: boolean
    progress,       \* App.tsx: number
    pc,             \* position of the running handleSimulate: idle/listen/load/invoke
    closure,        \* the AppState captured by the running handleSimulate, or Null
    listening,      \* whether the 'simulation-progress' listener is registered
    config,         \* the config passed to run_simulation_async and in flight, or Null
    engine,         \* back end: [total, done] of the sweep in progress, or Null
    events,         \* progress events emitted and not yet delivered to the listener
    reply,          \* the settled outcome of the pending invocation, or Null
    fetches,        \* load_column_data requests of fetchDataCount still pending
    outcome,        \* how the last run ended: none / ok / failed / rejected
    touched,        \* history: results has changed since the current run started
    sublevelTab     \* Results.tsx: the label of the selected sublevel tab, << >> for ''

vars == << state, columns, results, originalData, dataCount, isSimulating,
           progress, pc, closure, listening, config, engine, events, reply,
           fetches, outcome, touched, sublevelTab >>

-----------------------------------------------------------------------------
(* JavaScript values *)

Null == << >>

Some(v) == << v >>

NaN == -1000000

isNaN(x) == x = NaN

\* Relational operators of JavaScript numbers: false when an operand is NaN.
Lt(a, b) == ~isNaN(a) /\ ~isNaN(b) /\ a < b

Le(a, b) == ~isNaN(a) /\ ~isNaN(b) /\ a <= b

Gt(a, b) == Lt(b, a)

Ge(a, b) == Le(b, a)

\* x || d for a number x: d when x is 0 or NaN.
OrElse(x, d) == IF isNaN(x) \/ x = 0 THEN d ELSE x

\* Math.min(a, b) for a number a that is not NaN.
MathMin(a, b) == IF a < b THEN a ELSE b

\* parseFloat of the text of a number input: the number typed, NaN for "".
parseFloat(text) == IF text = << >> THEN NaN ELSE text[1]

\* parseInt of the text of a number input: the integer part of the number
\* typed (truncated towards zero), in units; NaN for "".
parseInt(text) ==
    IF text = << >> THEN NaN
    ELSE IF text[1] >= 0 THEN text[1] \div 10 ELSE -((-text[1]) \div 10)

-----------------------------------------------------------------------------
(* The files the user can pick and what the back end's loaders return. *)

Files == { "a.csv", "b.csv", "empty.csv" }

\* get_file_columns(path)
FileColumns(path) ==
    IF path = "a.csv" THEN << "glucose", "comment" >>
    ELSE IF path = "empty.csv" THEN << >>
    ELSE << "glucose" >>

\* load_column_data(path, column): the values, or Null when the command fails.
ColumnData(path, column) ==
    IF path = "a.csv" /\ column = "glucose" THEN Some(<< 40, 50, 60 >>)
    ELSE IF path = "b.csv" /\ column = "glucose" THEN Some(<< 70 >>)
    ELSE Null

-----------------------------------------------------------------------------
(* types.ts *)

MU_ANALYTICAL  == "Setting APS for measurement uncertainty - Analytical rerun simulation"

MU_RESAMPLING  == "Setting APS for measurement uncertainty - Resampling simulation"

IB_ANALYTICAL  == "Setting APS for imprecision and bias - Analytical rerun simulation"

IB_RESAMPLING  == "Setting APS for imprecision and bias - Resampling simulation"

SIMULATION_MODELS == { MU_ANALYTICAL, MU_RESAMPLING, IB_ANALYTICAL, IB_RESAMPLING }

\* The state after construction (App.tsx, useState initialisers).
InitialState ==
    [ simulationModel     |-> MU_ANALYTICAL,
      filePath            |-> Null,
      analyteName         |-> Null,
      decimalPlaces       |-> 0,
      cdls                |-> << 0 >>,
      agreementThresholds |-> [ min |-> 900, des |-> 950, opt |-> 990 ],
      biologicalVariation |-> 0,
      sampleSize          |-> Null,
      maxImprecision      |-> 333,
      maxBias             |-> 350,
      maxMu               |-> 331,
      stepSizeMu          |-> 1,
      stepSizeImpBias     |-> 10,
      useCustomBoundaries |-> FALSE ]

Init ==
    /\ state = InitialState
    /\ columns = << >>
    /\ results = Null
    /\ originalData = Null
    /\ dataCount = Null
    /\ isSimulating = FALSE
    /\ progress = 0
    /\ pc = "idle"
    /\ closure = Null
    /\ listening = FALSE
    /\ config = Null
    /\ engine = Null
    /\ events = << >>
    /\ reply = Null
    /\ fetches = { }
    /\ outcome = "none"
    /\ touched = FALSE
    /\ sublevelTab = << >>

-----------------------------------------------------------------------------
(* React: committing a new AppState and running the effects that depend on *)
(* it (App.tsx, the two useEffect hooks).                                  *)

\* useEffect(..., [state.simulationModel]): setResults(null).
ResetResultsEffect(old, new) ==
    results' = IF new.simulationModel # old.simulationModel THEN Null ELSE results

\* useEffect(..., [state.filePath, state.analyteName]): fetchDataCount().
\* With a file and a column selected a load_column_data request is issued
\* (answered later by FetchDataCountDone); otherwise setDataCount(null).
FetchDataCountEffect(old, new) ==
    IF new.filePath = old.filePath /\ new.analyteName = old.analyteName
    THEN UNCHANGED << fetches, dataCount >>
    ELSE IF new.filePath # Null /\ new.analyteName # Null
         THEN /\ fetches' = fetches \cup
                    { [ path |-> new.filePath[1], column |-> new.analyteName[1] ] }
              /\ UNCHANGED dataCount
         ELSE /\ dataCount' = Null
              /\ UNCHANGED fetches

\* History: whether results has changed during the run under way.
Touch == touched' = (touched \/ (pc # "idle" /\ results' # results))

\* Results.tsx, useEffect(..., [results, sublevelTab]): with a result that
\* has names and no tab selected yet, setSublevelTab(results.names[0]).
SublevelTabEffect ==
    sublevelTab' = IF results' # Null /\ sublevelTab = << >>
                   THEN IF Len(results'[1].names) > 0
                        THEN results'[1].names[1] ELSE sublevelTab
                   ELSE sublevelTab

\* setState(prev => new) from an event handler, followed by the effects.
Commit(new) ==
    /\ state' = new
    /\ ResetResultsEffect(state, new)
    /\ FetchDataCountEffect(state, new)
    /\ Touch
    /\ SublevelTabEffect
    /\ UNCHANGED << columns, originalData, isSimulating, progress, pc, closure,
                    listening, config, engine, events, reply, outcome >>

\* The answer to one pending load_column_data request of fetchDataCount.
FetchDataCountDone ==
    \E f \in fetches :
        /\ fetches' = fetches \ { f }
        /\ dataCount' = IF ColumnData(f.path, f.column) = Null THEN Null
                        ELSE Some(Len(ColumnData(f.path, f.column)[1]))
        /\ UNCHANGED << state, columns, results, originalData, isSimulating,
                        progress, pc, closure, listening, config, engine,
                        events, reply, outcome, touched,
                    sublevelTab >>

-----------------------------------------------------------------------------
(* Sidebar.tsx: the event handlers *)

MaxCDLs == 7

MinCDLs == 1

\* handleModelChange: a radio button other than the checked one is chosen.
HandleModelChange(model) ==
    /\ model \in SIMULATION_MODELS
    /\ model # state.simulationModel
    /\ Commit([ state EXCEPT !.simulationModel = model ])

\* updateCDL(idx, parseFloat(e.target.value) || 0) from the idx-th input.
UpdateCDL(index, text) ==
    /\ index \in 1 .. Len(state.cdls)
    /\ Commit([ state EXCEPT !.cdls[index] = OrElse(parseFloat(text), 0) ])

\* addCDL with the bound tested as "<= 7".
AddCDL_OffByOne ==
    IF Len(state.cdls) <= MaxCDLs
    THEN Commit([ state EXCEPT !.cdls = Append(@, 0) ])
    ELSE UNCHANGED vars

AddCDL ==
    IF Len(state.cdls) < MaxCDLs
    THEN Commit([ state EXCEPT !.cdls = Append(@, 0) ])
    ELSE UNCHANGED vars

RemoveCDL ==
    IF Len(state.cdls) > MinCDLs
    THEN Commit([ state EXCEPT !.cdls = SubSeq(@, 1, Len(@) - 1) ])
    ELSE UNCHANGED vars

\* state.simulationModel.includes("Resampling"): the CV_i input is rendered.
IncludesResampling(model) == model \in { MU_RESAMPLING, IB_RESAMPLING }

\* The CV_i input: parseFloat(e.target.value) || 0.
SetBiologicalVariation(text) ==
    /\ IncludesResampling(state.simulationModel)
    /\ Commit([ state EXCEPT !.biologicalVariation = OrElse(parseFloat(text), 0) ])

\* The Decimal Places input: parseInt(e.target.value) || 0.
SetDecimalPlaces(text) ==
    Commit([ state EXCEPT !.decimalPlaces = OrElse(parseInt(text), 0) ])

\* The three Agreement Thresholds inputs: parseFloat(e.target.value).
SetThresholdMin(text) ==
    Commit([ state EXCEPT !.agreementThresholds.min = parseFloat(text) ])

SetThresholdDes(text) ==
    Commit([ state EXCEPT !.agreementThresholds.des = parseFloat(text) ])

SetThresholdOpt(text) ==
    Commit([ state EXCEPT !.agreementThresholds.opt = parseFloat(text) ])

\* The measurand <select>, rendered when the file has columns.
SelectAnalyte(name) ==
    /\ Len(columns) > 0
    /\ \E i \in 1 .. Len(columns) : columns[i] = name
    /\ Some(name) # state.analyteName
    /\ Commit([ state EXCEPT !.analyteName = Some(name) ])

\* dataCount || d
DataCountOr(d) == IF dataCount = Null \/ dataCount[1] = 0 THEN d ELSE dataCount[1]

DefaultSampleSize == 1000

\* The Optional Sampling checkbox: checked iff sampleSize !== null.
ToggleSampling ==
    Commit([ state EXCEPT !.sampleSize =
                IF @ = Null THEN Some(DataCountOr(DefaultSampleSize)) ELSE Null ])

\* The sample-size input, rendered when sampleSize !== null:
\* Math.min(parseInt(value), dataCount || Infinity), or 0 for an empty field.
SetSampleSize(text) ==
    /\ state.sampleSize # Null
    /\ Commit([ state EXCEPT !.sampleSize =
                IF ~isNaN(parseInt(text))
                THEN IF dataCount = Null \/ dataCount[1] = 0
                     THEN Some(parseInt(text))
                     ELSE Some(MathMin(parseInt(text), dataCount[1]))
                ELSE Some(0) ])

\* simulationModel.includes("measurement uncertainty")
IsMuSidebar(model) == model \in { MU_ANALYTICAL, MU_RESAMPLING }

CapMu == 333

CapImprecision == 333

CapBias == 1000

FallbackStep == 5

ToggleCustomBoundaries ==
    Commit([ state EXCEPT !.useCustomBoundaries = ~@ ])

\* The boundary inputs are rendered only with "Adjust Simulation Boundaries"
\* checked: maxMu and stepSizeMu for the measurement-uncertainty models,
\* maxImprecision, maxBias and stepSizeImpBias for the others.
\* The maxMu input without Math.min(val, 33.3).
SetMaxMu_Uncapped(text) ==
    /\ state.useCustomBoundaries /\ IsMuSidebar(state.simulationModel)
    /\ Commit([ state EXCEPT !.maxMu =
                IF ~isNaN(parseFloat(text)) THEN parseFloat(text) ELSE 0 ])

SetMaxMu(text) ==
    /\ state.useCustomBoundaries /\ IsMuSidebar(state.simulationModel)
    /\ Commit([ state EXCEPT !.maxMu =
                IF ~isNaN(parseFloat(text)) THEN MathMin(parseFloat(text), CapMu)
                ELSE 0 ])

SetStepSizeMu(text) ==
    /\ state.useCustomBoundaries /\ IsMuSidebar(state.simulationModel)
    /\ Commit([ state EXCEPT !.stepSizeMu = OrElse(parseFloat(text), FallbackStep) ])

SetMaxImprecision(text) ==
    /\ state.useCustomBoundaries /\ ~IsMuSidebar(state.simulationModel)
    /\ Commit([ state EXCEPT !.maxImprecision =
                IF ~isNaN(parseFloat(text))
                THEN MathMin(parseFloat(text), CapImprecision)
                ELSE 0 ])

SetMaxBias(text) ==
    /\ state.useCustomBoundaries /\ ~IsMuSidebar(state.simulationModel)
    /\ Commit([ state EXCEPT !.maxBias =
                IF ~isNaN(parseFloat(text)) THEN MathMin(parseFloat(text), CapBias)
                ELSE 0 ])

SetStepSizeImpBias(text) ==
    /\ state.useCustomBoundaries /\ ~IsMuSidebar(state.simulationModel)
    /\ Commit([ state EXCEPT !.stepSizeImpBias =
                OrElse(parseFloat(text), FallbackStep) ])

-----------------------------------------------------------------------------
(* App.tsx: handleUpload *)

\* handleUpload keeping the measurand already selected when there is one.
UploadSucceeds_KeepsAnalyte(selected) ==
    LET cols == FileColumns(selected)
        new  == [ state EXCEPT !.filePath = Some(selected),
                               !.analyteName = IF state.analyteName # Null
                                               THEN state.analyteName
                                               ELSE IF Len(cols) > 0 THEN Some(cols[1])
                                               ELSE Null ]
    IN  /\ columns' = cols
        /\ state' = new
        /\ ResetResultsEffect(state, new)
        /\ FetchDataCountEffect(state, new)
        /\ Touch
        /\ SublevelTabEffect
        /\ UNCHANGED << originalData, isSimulating, progress, pc, closure,
                        listening, config, engine, events, reply, outcome >>

\* The dialog returns a path; get_file_columns answers; setColumns and
\* setState follow, and then the fetchDataCount effect.
UploadSucceeds(selected) ==
    LET cols == FileColumns(selected)
        new  == [ state EXCEPT !.filePath = Some(selected),
                               !.analyteName = IF Len(cols) > 0 THEN Some(cols[1])
                                               ELSE Null ]
    IN  /\ columns' = cols
        /\ state' = new
        /\ ResetResultsEffect(state, new)
        /\ FetchDataCountEffect(state, new)
        /\ Touch
        /\ SublevelTabEffect
        /\ UNCHANGED << originalData, isSimulating, progress, pc, closure,
                        listening, config, engine, events, reply, outcome >>

\* The dialog is cancelled, or get_file_columns fails (alert): no state is set.
UploadAbandoned == UNCHANGED vars

HandleUpload(selected) ==
    \/ UploadSucceeds(selected)
    \/ UploadAbandoned

-----------------------------------------------------------------------------
(* The simulation back end behind run_simulation_async, from its           *)
(* specification (sections 4.1, 4.4 to 4.6 and 7).                         *)

MaxGrid == 2

MaxWholeGrid == 4

DefaultMaxMu == 331

DefaultStepSizeMu == 1

DefaultMaxImprecision == 333

DefaultMaxBias == 350

DefaultStepSizeImpBias == 10

IsResampling(model) == model \in { MU_RESAMPLING, IB_RESAMPLING }

IsMuVariant(model) == model \in { MU_ANALYTICAL, MU_RESAMPLING }

StrictlyAscending(seq) ==
    \A i \in 1 .. Len(seq) - 1 : Lt(seq[i], seq[i + 1])

\* An optional override is absent or satisfies 0 < value <= cap.
OverrideOk(opt, cap) == opt = Null \/ (Gt(opt[1], 0) /\ Le(opt[1], cap))

\* Section 4.1, the checks of the Config Validator.
ValidConfig(c) ==
    /\ Len(c.data) > 0
    /\ Len(c.cdls) \in MinCDLs .. MaxCDLs
    /\ StrictlyAscending(c.cdls)
    /\ \A i \in 1 .. 3 : Ge(c.agreement_thresholds[i], 0)
                         /\ Le(c.agreement_thresholds[i], 1000)
    /\ Le(c.agreement_thresholds[1], c.agreement_thresholds[2])
    /\ Le(c.agreement_thresholds[2], c.agreement_thresholds[3])
    /\ c.sample_size = Null
         \/ (Ge(c.sample_size[1], 1) /\ Le(c.sample_size[1], Len(c.data)))
    /\ c.cv_i = Null \/ Gt(c.cv_i[1], 0)
    /\ IsResampling(c.model) => c.cv_i # Null
    /\ OverrideOk(c.max_mu, CapMu)
    /\ OverrideOk(c.max_imprecision, CapImprecision)
    /\ OverrideOk(c.max_bias, CapBias)
    /\ c.step_size_mu = Null \/ Gt(c.step_size_mu[1], 0)
    /\ c.step_size_imp_bias = Null \/ Gt(c.step_size_imp_bias[1], 0)

OrDefault(opt, default) == IF opt = Null THEN default ELSE opt[1]

\* The mu axis without its point at 0.
MuAxisCount_NoOrigin(c) ==
    OrDefault(c.max_mu, DefaultMaxMu) \div OrDefault(c.step_size_mu, DefaultStepSizeMu)

\* The bias axis in half steps.
BiasAxisCount_HalfSteps(c) ==
    2 * ((2 * OrDefault(c.max_bias, DefaultMaxBias))
            \div OrDefault(c.step_size_imp_bias, DefaultStepSizeImpBias)) + 1

\* Section 4.1, grid construction: the number of points on each axis.
MuAxisCount(c) ==
    OrDefault(c.max_mu, DefaultMaxMu) \div OrDefault(c.step_size_mu, DefaultStepSizeMu) + 1

ImprecisionAxisCount(c) ==
    OrDefault(c.max_imprecision, DefaultMaxImprecision)
        \div OrDefault(c.step_size_imp_bias, DefaultStepSizeImpBias) + 1

BiasAxisCount(c) ==
    (2 * OrDefault(c.max_bias, DefaultMaxBias))
        \div OrDefault(c.step_size_imp_bias, DefaultStepSizeImpBias) + 1

GridSize(c) ==
    IF IsMuVariant(c.model) THEN MuAxisCount(c)
    ELSE ImprecisionAxisCount(c) * BiasAxisCount(c)

\* The k-th grid point with bias as the outer axis.
GridPoint_BiasOuter(c, k) ==
    IF IsMuVariant(c.model)
    THEN [ mu |-> k * OrDefault(c.step_size_mu, DefaultStepSizeMu), bias |-> 0 ]
    ELSE [ mu   |-> (k % ImprecisionAxisCount(c))
                        * OrDefault(c.step_size_imp_bias, DefaultStepSizeImpBias),
           bias |-> (k \div ImprecisionAxisCount(c))
                        * OrDefault(c.step_size_imp_bias, DefaultStepSizeImpBias)
                    - OrDefault(c.max_bias, DefaultMaxBias) ]

\* The k-th grid point (k from 0) in construction order: ascending mu, or
\* row-major with imprecision outer and bias ascending from -max_bias inner.
GridPoint(c, k) ==
    IF IsMuVariant(c.model)
    THEN [ mu |-> k * OrDefault(c.step_size_mu, DefaultStepSizeMu), bias |-> 0 ]
    ELSE [ mu   |-> (k \div BiasAxisCount(c))
                        * OrDefault(c.step_size_imp_bias, DefaultStepSizeImpBias),
           bias |-> (k % BiasAxisCount(c))
                        * OrDefault(c.step_size_imp_bias, DefaultStepSizeImpBias)
                    - OrDefault(c.max_bias, DefaultMaxBias) ]

\* A grid of at most MaxWholeGrid points is swept whole; the sweep of a
\* larger grid is followed over its first MaxGrid grid points.
SweepLength(c) == IF GridSize(c) <= MaxWholeGrid THEN GridSize(c) ELSE MaxGrid

\* What the trials of one grid point may come to under one decision limit:
\* the overall agreement, sensitivity and specificity and those of the
\* limit, in thousandths.
TrialOutcomes ==
    { [ agreement |-> 1000, sensitivity |-> 1000, specificity |-> 1000,
        sublevel_agreement   |-> << 1000 >>,
        sublevel_sensitivity |-> << 1000 >>,
        sublevel_specificity |-> << 1000 >> ],
      [ agreement |-> 800,  sensitivity |-> 900,  specificity |-> 700,
        sublevel_agreement   |-> << 800 >>,
        sublevel_sensitivity |-> << 900 >>,
        sublevel_specificity |-> << 700 >> ] }

\* Section 4.1: the values the trials run over, the first sample_size values
\* when a sample size is configured.
Dataset(c) ==
    IF c.sample_size = Null THEN c.data
    ELSE SubSeq(c.data, 1, c.sample_size[1])

\* The standard deviates a trial may draw.
Deviates == { -2, 0, 2 }

\* Section 4.2: the fraction the deviate of a trial is scaled by.  For the
\* resampling variants the rule combining mu with cv_i is left to the
\* implementer: either of two rules may be the one chosen, one under which
\* the noise vanishes with mu and one under which cv_i alone is noise.
NoiseScales(c, point) ==
    IF IsResampling(c.model)
    THEN { (point.mu * (1000 + c.cv_i[1])) \div 1000, point.mu + c.cv_i[1] }
    ELSE { point.mu }

\* The simulated value with a deviate that is not scaled.
Perturb_UnscaledNoise(v, point, scale, z) ==
    (v * (1000 + point.bias)) \div 1000 + (v * scale * z) \div 1000 + z

\* Section 4.2: the simulated value of a true value v (mu and bias in
\* thousandths; bias is 0 at every grid point of the mu variants).
Perturb(v, point, scale, z) ==
    (v * (1000 + point.bias)) \div 1000 + (v * scale * z) \div 1000

\* Section 4.3: the full category index, the number of limits exceeded.
CategoryIndex(v, cdls) == Cardinality({ i \in 1 .. Len(cdls) : v > cdls[i] })

\* The ratio as a percentage.
Ratio_Percent(num, den) == IF den = 0 THEN 0 ELSE (100000 * num) \div den

\* Section 4.5: a fraction in thousandths, 0 when the denominator is 0.
Ratio(num, den) == IF den = 0 THEN 0 ELSE (1000 * num) \div den

\* Sections 4.4 and 4.5: the metrics of a grid point from one trial per
\* value, the trial of the j-th value drawing the deviate zs[j].  The
\* overall sensitivity and specificity are those of the first limit.
PointOutcome(c, point, scale, zs) ==
    LET data   == Dataset(c)
        trials == 1 .. Len(data)
        sim    == [ j \in trials |-> Perturb(data[j], point, scale, zs[j]) ]
        matches == { j \in trials : CategoryIndex(data[j], c.cdls)
                                       = CategoryIndex(sim[j], c.cdls) }
        TP(i) == Cardinality({ j \in trials : data[j] > c.cdls[i] /\ sim[j] > c.cdls[i] })
        FN(i) == Cardinality({ j \in trials : data[j] > c.cdls[i] /\ ~(sim[j] > c.cdls[i]) })
        TN(i) == Cardinality({ j \in trials : ~(data[j] > c.cdls[i]) /\ ~(sim[j] > c.cdls[i]) })
        FP(i) == Cardinality({ j \in trials : ~(data[j] > c.cdls[i]) /\ sim[j] > c.cdls[i] })
        sens == [ i \in 1 .. Len(c.cdls) |-> Ratio(TP(i), TP(i) + FN(i)) ]
        spec == [ i \in 1 .. Len(c.cdls) |-> Ratio(TN(i), TN(i) + FP(i)) ]
    IN  [ agreement   |-> Ratio(Cardinality(matches), Len(data)),
          sensitivity |-> sens[1],
          specificity |-> spec[1],
          sublevel_agreement   |-> [ i \in 1 .. Len(c.cdls) |->
                                       Ratio(TP(i) + TN(i), Len(data)) ],
          sublevel_sensitivity |-> sens,
          sublevel_specificity |-> spec ]

\* What the trials of a grid point may come to.
PointOutcomes(c, point) ==
    { PointOutcome(c, point, scale, zs) :
          scale \in NoiseScales(c, point),
          zs \in [ 1 .. Len(Dataset(c)) -> Deviates ] }

\* Section 4.5: the bucket of a metric under the thresholds.
Category(fraction, thresholds) ==
    IF fraction < thresholds[1] THEN "below-min"
    ELSE IF fraction < thresholds[2] THEN "min"
    ELSE IF fraction < thresholds[3] THEN "desirable"
    ELSE "optimal"

\* The SimulationPoint with sublevel arrays for the first decision limit only.
SimulationPoint_FirstLimitOnly(c, point, m) ==
    [ mu                   |-> point.mu,
      bias                 |-> point.bias,
      agreement            |-> m.agreement,
      sensitivity          |-> m.sensitivity,
      specificity          |-> m.specificity,
      agreement_cat        |-> Category(m.agreement, c.agreement_thresholds),
      sensitivity_cat      |-> Category(m.sensitivity, c.agreement_thresholds),
      specificity_cat      |-> Category(m.specificity, c.agreement_thresholds),
      sublevel_agreement   |-> << m.sublevel_agreement[1] >>,
      sublevel_sensitivity |-> << m.sublevel_sensitivity[1] >>,
      sublevel_specificity |-> << m.sublevel_specificity[1] >> ]

\* Section 4.5: the SimulationPoint of a grid point.
SimulationPoint(c, point, m) ==
    [ mu                   |-> point.mu,
      bias                 |-> point.bias,
      agreement            |-> m.agreement,
      sensitivity          |-> m.sensitivity,
      specificity          |-> m.specificity,
      agreement_cat        |-> Category(m.agreement, c.agreement_thresholds),
      sensitivity_cat      |-> Category(m.sensitivity, c.agreement_thresholds),
      specificity_cat      |-> Category(m.specificity, c.agreement_thresholds),
      sublevel_agreement   |-> [ i \in 1 .. Len(c.cdls) |-> m.sublevel_agreement[i] ],
      sublevel_sensitivity |-> [ i \in 1 .. Len(c.cdls) |-> m.sublevel_sensitivity[i] ],
      sublevel_specificity |-> [ i \in 1 .. Len(c.cdls) |-> m.sublevel_specificity[i] ] ]

\* A value in tenths rendered with the given number of decimal places: the
\* label is the pair of the rounded value (in tenths) and the places.
FormatFixed(x, places) ==
    IF places > 0 THEN << x, places >>
    ELSE LET q == x \div 10
             r == x % 10
             n == IF r > 5 \/ (r = 5 /\ q % 2 = 1) THEN q + 1 ELSE q
         IN  << 10 * n, 0 >>

Names(c) == [ i \in 1 .. Len(c.cdls) |-> FormatFixed(c.cdls[i], c.decimal_places) ]

\* The command starting the sweep without validating the configuration.
EngineStart_Unvalidated ==
    /\ config # Null /\ engine = Null /\ reply = Null
    /\ engine' = Some([ total  |-> SweepLength(config[1]),
                        done   |-> 0,
                        points |-> << >> ])
    /\ UNCHANGED << state, columns, results, originalData, dataCount,
                    isSimulating, progress, pc, closure, listening, config,
                    events, reply, fetches, outcome, touched,
                    sublevelTab >>

\* The command is received: an invalid configuration is refused before any
\* computation, a valid one starts the sweep.
EngineStart ==
    /\ config # Null /\ engine = Null /\ reply = Null
    /\ IF ValidConfig(config[1])
       THEN /\ engine' = Some([ total  |-> SweepLength(config[1]),
                                done   |-> 0,
                                points |-> << >> ])
            /\ UNCHANGED reply
       ELSE /\ reply' = Some([ ok |-> FALSE, result |-> Null ])
            /\ UNCHANGED engine
    /\ UNCHANGED << state, columns, results, originalData, dataCount,
                    isSimulating, progress, pc, closure, listening, config,
                    events, fetches, outcome, touched,
                    sublevelTab >>

\* One grid point is evaluated and the percentage completed is emitted to
\* the listeners registered at that moment.
EngineStep ==
    /\ engine # Null
    /\ engine[1].done < engine[1].total
    /\ \E m \in PointOutcomes(config[1], GridPoint(config[1], engine[1].done)) :
          engine' = Some([ engine[1] EXCEPT !.done = @ + 1,
                                            !.points = Append(@, m) ])
    /\ events' = IF listening
                 THEN Append(events, ((engine[1].done + 1) * 100) \div engine[1].total)
                 ELSE events
    /\ UNCHANGED << state, columns, results, originalData, dataCount,
                    isSimulating, progress, pc, closure, listening, config,
                    reply, fetches, outcome, touched,
                    sublevelTab >>

\* Sections 4.4 and 4.5: the result of a sweep of n grid points whose
\* trials came to ms[1], ..., ms[n], in construction order.
SimulationResult(c, n, ms) ==
    [ mu_data |-> [ i \in 1 .. n |-> SimulationPoint(c, GridPoint(c, i - 1), ms[i]) ],
      names   |-> Names(c) ]

\* The sweep is complete: the whole result is returned.
EngineFinish ==
    /\ engine # Null
    /\ engine[1].done = engine[1].total
    /\ reply' = Some([ ok |-> TRUE,
                       result |-> Some(SimulationResult(config[1], engine[1].total,
                                                        engine[1].points)) ])
    /\ engine' = Null
    /\ UNCHANGED << state, columns, results, originalData, dataCount,
                    isSimulating, progress, pc, closure, listening, config,
                    events, fetches, outcome, touched,
                    sublevelTab >>

\* A runtime failure aborts the sweep: a single failure and no result.
EngineFail ==
    /\ engine # Null
    /\ reply' = Some([ ok |-> FALSE, result |-> Null ])
    /\ engine' = Null
    /\ UNCHANGED << state, columns, results, originalData, dataCount,
                    isSimulating, progress, pc, closure, listening, config,
                    events, fetches, outcome, touched,
                    sublevelTab >>

-----------------------------------------------------------------------------
(* App.tsx: handleSimulate.  Each action is the code between two awaits;   *)
(* the function reads the AppState of the render in which it was created.  *)

\* The config carrying the boundary fields whether or not
\* useCustomBoundaries is set.
MakeConfig_OverridesAlwaysSent(s, data) ==
    [ model              |-> s.simulationModel,
      data               |-> data,
      cdls               |-> s.cdls,
      decimal_places     |-> s.decimalPlaces,
      agreement_thresholds |-> << s.agreementThresholds.min,
                                  s.agreementThresholds.des,
                                  s.agreementThresholds.opt >>,
      cv_i               |-> IF Gt(s.biologicalVariation, 0)
                             THEN Some(s.biologicalVariation) ELSE Null,
      sample_size        |-> s.sampleSize,
      max_imprecision    |-> Some(s.maxImprecision),
      max_bias           |-> Some(s.maxBias),
      max_mu             |-> Some(s.maxMu),
      step_size_mu       |-> Some(s.stepSizeMu),
      step_size_imp_bias |-> Some(s.stepSizeImpBias) ]

\* The config with cv_i: state.biologicalVariation, whatever its sign.
MakeConfig_CvAlwaysSent(s, data) ==
    [ model              |-> s.simulationModel,
      data               |-> data,
      cdls               |-> s.cdls,
      decimal_places     |-> s.decimalPlaces,
      agreement_thresholds |-> << s.agreementThresholds.min,
                                  s.agreementThresholds.des,
                                  s.agreementThresholds.opt >>,
      cv_i               |-> Some(s.biologicalVariation),
      sample_size        |-> s.sampleSize,
      max_imprecision    |-> IF s.useCustomBoundaries THEN Some(s.maxImprecision) ELSE Null,
      max_bias           |-> IF s.useCustomBoundaries THEN Some(s.maxBias) ELSE Null,
      max_mu             |-> IF s.useCustomBoundaries THEN Some(s.maxMu) ELSE Null,
      step_size_mu       |-> IF s.useCustomBoundaries THEN Some(s.stepSizeMu) ELSE Null,
      step_size_imp_bias |-> IF s.useCustomBoundaries THEN Some(s.stepSizeImpBias)
                             ELSE Null ]

\* The config object built after the data load (lines 113 to 130).
MakeConfig(s, data) ==
    [ model              |-> s.simulationModel,
      data               |-> data,
      cdls               |-> s.cdls,
      decimal_places     |-> s.decimalPlaces,
      agreement_thresholds |-> << s.agreementThresholds.min,
                                  s.agreementThresholds.des,
                                  s.agreementThresholds.opt >>,
      cv_i               |-> IF Gt(s.biologicalVariation, 0)
                             THEN Some(s.biologicalVariation) ELSE Null,
      sample_size        |-> s.sampleSize,
      max_imprecision    |-> IF s.useCustomBoundaries THEN Some(s.maxImprecision) ELSE Null,
      max_bias           |-> IF s.useCustomBoundaries THEN Some(s.maxBias) ELSE Null,
      max_mu             |-> IF s.useCustomBoundaries THEN Some(s.maxMu) ELSE Null,
      step_size_mu       |-> IF s.useCustomBoundaries THEN Some(s.stepSizeMu) ELSE Null,
      step_size_imp_bias |-> IF s.useCustomBoundaries THEN Some(s.stepSizeImpBias)
                             ELSE Null ]

\* The click accepted while a run is under way: a Simulate button that is
\* not disabled by isSimulating.
HandleSimulate_AlwaysEnabled ==
    /\ state.filePath # Null /\ state.analyteName # Null
    /\ isSimulating' = TRUE
    /\ progress' = 0
    /\ pc' = "listen"
    /\ closure' = Some(state)
    /\ touched' = FALSE
    /\ outcome' = "none"
    /\ UNCHANGED << state, columns, results, originalData, dataCount, listening,
                    config, engine, events, reply, fetches, sublevelTab >>

\* The Simulate button is enabled (Sidebar.tsx line 305) and clicked:
\* setIsSimulating(true), setProgress(0), listen(...) is called.
HandleSimulate ==
    /\ ~isSimulating
    /\ state.filePath # Null /\ state.analyteName # Null
    /\ isSimulating' = TRUE
    /\ progress' = 0
    /\ pc' = "listen"
    /\ closure' = Some(state)
    /\ touched' = FALSE
    /\ outcome' = "none"
    /\ UNCHANGED << state, columns, results, originalData, dataCount, listening,
                    config, engine, events, reply, fetches, sublevelTab >>

\* listen resolves: the listener is registered, load_column_data is invoked.
ListenResolved ==
    /\ pc = "listen"
    /\ listening' = TRUE
    /\ pc' = "load"
    /\ UNCHANGED << state, columns, results, originalData, dataCount,
                    isSimulating, progress, closure, config, engine, events,
                    reply, fetches, outcome, touched,
                    sublevelTab >>

\* listen rejects: the await is outside the try, so handleSimulate ends
\* with an unhandled rejection and neither catch nor finally runs.
ListenRejected ==
    /\ pc = "listen"
    /\ pc' = "idle"
    /\ closure' = Null
    /\ outcome' = "rejected"
    /\ UNCHANGED << state, columns, results, originalData, dataCount,
                    isSimulating, progress, listening, config, engine, events,
                    reply, fetches, touched,
                    sublevelTab >>

\* The listener adding each payload to the progress it holds.
ProgressListener_Accumulates(payload) ==
    /\ progress' = progress + payload
    /\ UNCHANGED << state, columns, results, originalData, dataCount,
                    isSimulating >>

\* The listener ending the run when it is told of 100 percent.
ProgressListener_EndsRun(payload) ==
    /\ progress' = payload
    /\ isSimulating' = (payload < 100)
    /\ UNCHANGED << state, columns, results, originalData, dataCount >>

\* The listener's callback: setProgress(event.payload), and no other state
\* of the component.
ProgressListener(payload) ==
    /\ progress' = payload
    /\ UNCHANGED << state, columns, results, originalData, dataCount,
                    isSimulating >>

\* A progress event reaches the registered listener.
DeliverProgress ==
    /\ listening
    /\ events # << >>
    /\ ProgressListener(Head(events))
    /\ events' = Tail(events)
    /\ UNCHANGED << pc, closure, listening, config, engine, reply, fetches,
                    outcome, touched,
                    sublevelTab >>

\* finally without the unlisten() call: the listener stays registered.
Finally_KeepsListener ==
    /\ listening' = listening
    /\ events' = events
    /\ isSimulating' = FALSE
    /\ pc' = "idle"
    /\ closure' = Null
    /\ config' = Null
    /\ reply' = Null

\* finally: unlisten(); setIsSimulating(false).  Events still under way to
\* the removed listener are dropped.
Finally ==
    /\ listening' = FALSE
    /\ events' = << >>
    /\ isSimulating' = FALSE
    /\ pc' = "idle"
    /\ closure' = Null
    /\ config' = Null
    /\ reply' = Null

\* load_column_data resolves: setOriginalData(data), the config is built
\* and run_simulation_async is invoked with it.
LoadResolved ==
    /\ pc = "load"
    /\ ColumnData(closure[1].filePath[1], closure[1].analyteName[1]) # Null
    /\ LET data == ColumnData(closure[1].filePath[1], closure[1].analyteName[1])[1]
       IN  /\ originalData' = Some(data)
           /\ config' = Some(MakeConfig(closure[1], data))
    /\ pc' = "invoke"
    /\ UNCHANGED << state, columns, results, dataCount, isSimulating, progress,
                    closure, listening, engine, events, reply, fetches, outcome,
                    touched,
                    sublevelTab >>

\* load_column_data rejects: catch (alert), then finally.
LoadRejected ==
    /\ pc = "load"
    /\ ColumnData(closure[1].filePath[1], closure[1].analyteName[1]) = Null
    /\ outcome' = "failed"
    /\ Finally
    /\ UNCHANGED << state, columns, results, originalData, dataCount, progress,
                    engine, fetches, touched,
                    sublevelTab >>

\* run_simulation_async resolves: setResults(result), then finally.
InvokeResolved ==
    /\ pc = "invoke"
    /\ reply # Null /\ reply[1].ok
    /\ results' = reply[1].result
    /\ outcome' = "ok"
    /\ Finally
    /\ Touch
    /\ SublevelTabEffect
    /\ UNCHANGED << state, columns, originalData, dataCount, progress, engine,
                    fetches >>

\* The catch branch clearing results as well.
InvokeRejected_ClearsResults ==
    /\ pc = "invoke"
    /\ reply # Null /\ ~reply[1].ok
    /\ results' = Null
    /\ outcome' = "failed"
    /\ Finally
    /\ Touch
    /\ SublevelTabEffect
    /\ UNCHANGED << state, columns, originalData, dataCount, progress, engine,
                    fetches >>

\* run_simulation_async rejects: catch (alert), then finally.
InvokeRejected ==
    /\ pc = "invoke"
    /\ reply # Null /\ ~reply[1].ok
    /\ outcome' = "failed"
    /\ Finally
    /\ UNCHANGED << state, columns, results, originalData, dataCount, progress,
                    engine, fetches, touched,
                    sublevelTab >>

\* The steps of a run under way and of the back end serving it.
RunSteps ==
    \/ ListenResolved
    \/ ListenRejected
    \/ LoadResolved
    \/ EngineStart
    \/ EngineStep
    \/ EngineFinish
    \/ EngineFail
    \/ DeliverProgress
    \/ InvokeResolved
    \/ InvokeRejected

\* The steps of a run and of the back end serving it.
Run ==
    \/ HandleSimulate
    \/ RunSteps

\* The run of the application: a file is opened, a measurand and a model
\* are chosen, simulations are run.
Next ==
    \/ Run
    \/ LoadRejected
    \/ HandleUpload("a.csv")
    \/ \E name \in { "glucose", "comment" } : SelectAnalyte(name)
    \/ FetchDataCountDone
    \/ \E model \in { MU_ANALYTICAL, MU_RESAMPLING } : HandleModelChange(model)

Spec == Init /\ [][Next]_vars

-----------------------------------------------------------------------------
(* Properties of a run *)

\* C5 as stated, for the part of handleSimulate the claim is about (the try
\* block, lines 104 to 140): results is not assigned while the invocation
\* is pending, and the run ends either with results replaced by the result
\* returned, or with the failure reported and results as it was before the
\* run.
C5_ResultsAllOrNothing ==
    [][ /\ (pc = "invoke" /\ pc' = "invoke") => results' = results
        /\ (pc \in { "load", "invoke" } /\ pc' = "idle") =>
              \/ outcome' = "ok" /\ results' = reply[1].result
              \/ outcome' = "failed" /\ ~touched' ]_vars

\* C5, amended: a run ends in one of three ways: the invocation resolved and
\* results is replaced by the result it returned; the data load or the
\* invocation failed, the failure is reported and the run has not assigned
\* results; or the progress subscription failed, nothing is reported and the
\* run has not assigned results.  While a run is under way results changes
\* only when the simulation model is changed, which clears it: a run that
\* does not succeed ends with results as it was before the run, or null.
C5_ResultsAssignedOnlyOnSuccess ==
    [][ /\ (pc # "idle" /\ pc' # "idle" /\ results' # results) =>
              /\ state'.simulationModel # state.simulationModel
              /\ results' = Null
        /\ (pc # "idle" /\ pc' = "idle") =>
              \/ /\ pc = "invoke" /\ reply # Null /\ reply[1].ok
                 /\ outcome' = "ok"
                 /\ results' = reply[1].result
                 /\ results' # Null
              \/ /\ pc = "load" \/ (pc = "invoke" /\ reply # Null /\ ~reply[1].ok)
                 /\ outcome' = "failed"
                 /\ results' = results
                 /\ touched' => results' = Null
              \/ /\ pc = "listen"
                 /\ outcome' = "rejected"
                 /\ results' = results
                 /\ touched' => results' = Null ]_vars

\* A run has failed after the model was changed during it: the result of
\* an earlier run, held when the run started, is gone.
C5_Witness == pc = "idle" /\ outcome = "failed" /\ touched /\ results = Null

\* C14: handling a progress notification changes only the progress held:
\* not results, the configuration, isSimulating, nor the answer or the
\* outcome of the pending invocation; and what a successful run stores is
\* the result returned, whichever notifications were handled before.
C14_ProgressChangesOnlyProgress ==
    [][ /\ DeliverProgress =>
              UNCHANGED << results, config, isSimulating, reply, engine,
                           outcome, state, pc, closure >>
        /\ (pc = "invoke" /\ progress' # progress) =>
              UNCHANGED << results, config, isSimulating, reply, engine,
                           outcome >>
        /\ (pc = "invoke" /\ pc' = "idle" /\ outcome' = "ok") =>
              results' = reply[1].result ]_vars

\* A run has stored its result although none of its notifications was
\* handled.
C14_Witness ==
    /\ pc = "idle" /\ outcome = "ok"
    /\ results # Null
    /\ progress = 0

\* C6: a run starts with progress 0, and from then until the run ends the
\* progress held never decreases and stays in [0, 100].
C6_ProgressMonotone ==
    [][ /\ (pc = "idle" /\ pc' # "idle") => progress' = 0
        /\ pc # "idle" =>
              (progress' >= progress /\ progress' \in 0 .. 100) ]_vars

\* A second run is under way, part of its sweep reported, after an earlier
\* run had left progress at 100.
C6_Witness ==
    /\ pc = "invoke" /\ results # Null
    /\ progress > 0 /\ progress < 100

-----------------------------------------------------------------------------
(* Clinical decision limits.  In the specifications of one group of        *)
(* settings the user edits that group between runs (pc = "idle"): a run    *)
(* reads only the AppState captured when it was started and writes none of *)
(* it, so the settings a run is started with are the same as with edits    *)
(* made while an earlier run was under way.  Spec above covers the         *)
(* controls whose effects meet a run under way (model, file, measurand).   *)

\* What the user types into a decision-limit input: nothing, or 1.0.
CdlTexts == { << >>, << 10 >> }

NextCdl ==
    \/ Run
    \/ HandleUpload("a.csv")
    \/ FetchDataCountDone
    \/ pc = "idle" /\ AddCDL
    \/ pc = "idle" /\ RemoveCDL
    \/ \E index \in 1 .. MaxCDLs, text \in CdlTexts :
          pc = "idle" /\ UpdateCDL(index, text)

SpecCdl == Init /\ [][NextCdl]_vars

\* C1: every config passed to run_simulation_async carries a strictly
\* ascending list of decision limits.
C1_CdlsAscendingInConfig ==
    config # Null => StrictlyAscending(config[1].cdls)

\* C4: the number of decision limits stays in 1..7; addCDL changes nothing
\* at 7 limits, removeCDL changes nothing at 1 limit, and updateCDL never
\* changes the number of limits.
C4_CdlCountBounded ==
    /\ Len(state.cdls) \in 1 .. 7
    /\ [][ /\ Len(state'.cdls) \in 1 .. 7
           /\ (AddCDL /\ Len(state.cdls) = 7) => state' = state
           /\ (RemoveCDL /\ Len(state.cdls) = 1) => state' = state
           /\ (\E index \in 1 .. 7, text \in CdlTexts : UpdateCDL(index, text))
                 => Len(state'.cdls) = Len(state.cdls) ]_vars

\* Seven limits have been entered and the last one edited.
C4_Witness == Len(state.cdls) = 7 /\ state.cdls[7] = 10

-----------------------------------------------------------------------------
(* Agreement thresholds *)

\* What the user types into a threshold input: nothing, or 97.
ThresholdTexts == { << >>, << 970 >> }

NextThresholds ==
    \/ Run
    \/ HandleUpload("a.csv")
    \/ FetchDataCountDone
    \/ \E text \in ThresholdTexts : pc = "idle" /\ SetThresholdMin(text)
    \/ \E text \in ThresholdTexts : pc = "idle" /\ SetThresholdDes(text)
    \/ \E text \in ThresholdTexts : pc = "idle" /\ SetThresholdOpt(text)

SpecThresholds == Init /\ [][NextThresholds]_vars

\* C3: every config passed to run_simulation_async has thresholds
\* [min, des, opt] with min <= des <= opt, each in [0, 100].
C3_ThresholdsOrderedInConfig ==
    config # Null =>
        LET t == config[1].agreement_thresholds
        IN  /\ Le(t[1], t[2]) /\ Le(t[2], t[3])
            /\ \A i \in 1 .. 3 : Ge(t[i], 0) /\ Le(t[i], 1000)

-----------------------------------------------------------------------------
(* Optional sampling *)

\* What the user types into the sample-size input: nothing, 2, 5.5 or -1.
SampleSizeTexts == { << >>, << 20 >>, << 55 >>, << -10 >> }

NextSampling ==
    \/ Run
    \/ LoadRejected
    \/ HandleUpload("a.csv")
    \/ HandleUpload("b.csv")
    \/ \E name \in { "glucose", "comment" } : SelectAnalyte(name)
    \/ FetchDataCountDone
    \/ pc = "idle" /\ ToggleSampling
    \/ \E text \in SampleSizeTexts : pc = "idle" /\ SetSampleSize(text)

SpecSampling == Init /\ [][NextSampling]_vars

\* C2: every config passed to run_simulation_async has sample_size null or
\* an integer in [1, length of the dataset loaded for the run].
C2_SampleSizeInRangeInConfig ==
    config # Null =>
        \/ config[1].sample_size = Null
        \/ /\ Ge(config[1].sample_size[1], 1)
           /\ Le(config[1].sample_size[1], Len(config[1].data))

-----------------------------------------------------------------------------
(* Simulation boundaries *)

\* What the user types into a maximum: nothing, or 120.
MaximumTexts == { << >>, << 1200 >> }

\* What the user types into a step size: nothing, or -1.
StepTexts == { << >>, << -10 >> }

NextBoundaries ==
    \/ Run
    \/ HandleUpload("a.csv")
    \/ FetchDataCountDone
    \/ \E model \in { MU_ANALYTICAL, IB_ANALYTICAL } :
          pc = "idle" /\ HandleModelChange(model)
    \/ pc = "idle" /\ ToggleCustomBoundaries
    \/ \E text \in MaximumTexts : pc = "idle" /\ SetMaxMu(text)
    \/ \E text \in StepTexts : pc = "idle" /\ SetStepSizeMu(text)
    \/ \E text \in MaximumTexts : pc = "idle" /\ SetMaxImprecision(text)
    \/ \E text \in MaximumTexts : pc = "idle" /\ SetMaxBias(text)
    \/ \E text \in StepTexts : pc = "idle" /\ SetStepSizeImpBias(text)

SpecBoundaries == Init /\ [][NextBoundaries]_vars

\* C9: maxMu <= 33.3, maxImprecision <= 33.3 and maxBias <= 100 always hold,
\* so no boundary override of a config passed to run_simulation_async
\* exceeds its cap.
C9_BoundariesCapped ==
    /\ state.maxMu <= 333
    /\ state.maxImprecision <= 333
    /\ state.maxBias <= 1000
    /\ config # Null =>
          /\ config[1].max_mu = Null \/ config[1].max_mu[1] <= 333
          /\ config[1].max_imprecision = Null \/ config[1].max_imprecision[1] <= 333
          /\ config[1].max_bias = Null \/ config[1].max_bias[1] <= 1000

\* 120 was typed into the three maxima, which were cut to their caps, and
\* the overrides were passed in a config.
C9_Witness ==
    /\ config # Null
    /\ config[1].max_mu = Some(333)
    /\ config[1].max_imprecision = Some(333)
    /\ config[1].max_bias = Some(1000)

\* C10: every boundary override present in a config passed to
\* run_simulation_async is strictly positive.
C10_OverridesPositiveInConfig ==
    config # Null =>
        \A o \in { config[1].max_mu, config[1].max_imprecision, config[1].max_bias,
                   config[1].step_size_mu, config[1].step_size_imp_bias } :
            o = Null \/ Gt(o[1], 0)

\* C13: when useCustomBoundaries is false all five overrides of the config
\* are null whatever the boundary fields hold; when it is true they are the
\* stored values; and the stored values of the initial state are the
\* defaults of the back end (33.1, 0.1, 33.3, 35, 1.0).
C13_OverridesFollowFlag ==
    /\ InitialState.maxMu = DefaultMaxMu
    /\ InitialState.stepSizeMu = DefaultStepSizeMu
    /\ InitialState.maxImprecision = DefaultMaxImprecision
    /\ InitialState.maxBias = DefaultMaxBias
    /\ InitialState.stepSizeImpBias = DefaultStepSizeImpBias
    /\ ~InitialState.useCustomBoundaries
    /\ config # Null =>
          LET c == config[1]
              s == closure[1]
          IN  IF s.useCustomBoundaries
              THEN /\ c.max_mu = Some(s.maxMu)
                   /\ c.step_size_mu = Some(s.stepSizeMu)
                   /\ c.max_imprecision = Some(s.maxImprecision)
                   /\ c.max_bias = Some(s.maxBias)
                   /\ c.step_size_imp_bias = Some(s.stepSizeImpBias)
              ELSE /\ c.max_mu = Null
                   /\ c.step_size_mu = Null
                   /\ c.max_imprecision = Null
                   /\ c.max_bias = Null
                   /\ c.step_size_imp_bias = Null

\* A config built with the box unticked while the Max MU field, edited
\* earlier, holds 33.3: no override is sent.
C13_Witness ==
    /\ config # Null
    /\ ~closure[1].useCustomBoundaries
    /\ closure[1].maxMu = CapMu
    /\ config[1].max_mu = Null

-----------------------------------------------------------------------------
(* Biological variation *)

\* What the user types into the CV_i input: nothing, 0, -1.0 or 5.0.
CvTexts == { << >>, << 0 >>, << -10 >>, << 50 >> }

NextCv ==
    \/ Run
    \/ HandleUpload("a.csv")
    \/ FetchDataCountDone
    \/ \E model \in SIMULATION_MODELS : pc = "idle" /\ HandleModelChange(model)
    \/ \E text \in CvTexts : pc = "idle" /\ SetBiologicalVariation(text)

SpecCv == Init /\ [][NextCv]_vars

\* C12: in every config passed to run_simulation_async cv_i is null or
\* strictly greater than 0, whatever biologicalVariation holds and whichever
\* model is selected: it is the stored value exactly when that is positive.
C12_CvAbsentOrPositive ==
    config # Null =>
        /\ config[1].cv_i = Null \/ Gt(config[1].cv_i[1], 0)
        /\ config[1].cv_i =
              IF Gt(closure[1].biologicalVariation, 0)
              THEN Some(closure[1].biologicalVariation) ELSE Null

\* A config built while the field holds -1.0: the coefficient is absent.
C12_Witness ==
    /\ config # Null
    /\ closure[1].biologicalVariation = -10
    /\ config[1].cv_i = Null

-----------------------------------------------------------------------------
(* Invalid configurations *)

\* The edits that make the configuration invalid: a second decision limit
\* equal to the first, a minimum threshold above the desirable one, a sample
\* size taken before the data count is known, a resampling model with no
\* coefficient, a cleared maximum.
\* The longest list of decision limits built here.
MaxInvalidCDLs == 2

NextInvalid ==
    \/ Run
    \/ HandleUpload("a.csv")
    \/ FetchDataCountDone
    \/ pc = "idle" /\ Len(state.cdls) < MaxInvalidCDLs /\ AddCDL
    \/ pc = "idle" /\ RemoveCDL
    \/ \E text \in ThresholdTexts : pc = "idle" /\ SetThresholdMin(text)
    \/ pc = "idle" /\ ToggleSampling
    \/ \E model \in { MU_ANALYTICAL, MU_RESAMPLING } :
          pc = "idle" /\ HandleModelChange(model)
    \/ pc = "idle" /\ ToggleCustomBoundaries
    \/ \E text \in MaximumTexts : pc = "idle" /\ SetMaxMu(text)

SpecInvalid == Init /\ [][NextInvalid]_vars

\* C11: a run whose configuration is invalid fails before any computation:
\* no sweep is started and no percentage is emitted or applied for it, the
\* invocation is answered by a failure carrying no result, the run ends as
\* a reported failure and stores no result.
C11_InvalidFailsBeforeComputation ==
    [][ /\ (config' # Null /\ ~ValidConfig(config'[1])) =>
              /\ engine' = Null
              /\ events' = << >>
              /\ progress' = 0
              /\ reply' # Null => (~reply'[1].ok /\ reply'[1].result = Null)
        /\ (config # Null /\ ~ValidConfig(config[1])) =>
              /\ results' # results => results' = Null
              /\ pc' = "idle" => outcome' = "failed" ]_vars

\* The failure of a run with two equal decision limits is on its way to the
\* caller, which still holds the result of an earlier run.
C11_Witness ==
    /\ config # Null
    /\ Len(config[1].cdls) = 2
    /\ reply # Null /\ ~reply[1].ok
    /\ results # Null
    /\ progress = 0

-----------------------------------------------------------------------------
(* Results.tsx: the APS limits table and the colours of the scatter plot.   *)
(* A percentage is in tenths of a percent, so a fraction in thousandths     *)
(* times 100 is the same integer read as tenths of a percent.               *)

Times100(fraction) == fraction

\* d[metric], or the entry of the metric's sublevel array at levelIndex
\* (0-based; << >> when the overall metric is meant), undefined when the
\* array has no such entry.
MetricValue(d, metric, levelIndex) ==
    IF levelIndex = Null THEN Some(d[metric])
    ELSE LET sub == IF metric = "agreement" THEN d.sublevel_agreement
                    ELSE IF metric = "sensitivity" THEN d.sublevel_sensitivity
                    ELSE d.sublevel_specificity
         IN  IF levelIndex[1] + 1 \in 1 .. Len(sub)
             THEN Some(sub[levelIndex[1] + 1]) ELSE Null

\* val ?? 0
OrZero(val) == IF val = Null THEN 0 ELSE val[1]

RECURSIVE MathMaxOf(_)
\* Math.max(...xs) of a non-empty array.
MathMaxOf(xs) ==
    IF Len(xs) = 1 THEN xs[1]
    ELSE LET m == MathMaxOf(Tail(xs))
         IN  IF xs[1] > m THEN xs[1] ELSE m

RECURSIVE MathMinOf(_)
\* Math.min(...xs) of a non-empty array.
MathMinOf(xs) ==
    IF Len(xs) = 1 THEN xs[1]
    ELSE LET m == MathMinOf(Tail(xs))
         IN  IF xs[1] < m THEN xs[1] ELSE m

MathAbs(x) == IF x < 0 THEN -x ELSE x

\* x.toFixed(1) of a value in tenths: its decimal text with one decimal.
toFixed1(x) ==
    (IF x < 0 THEN "-" ELSE "")
        \o ToString(MathAbs(x) \div 10) \o "." \o ToString(MathAbs(x) % 10)

\* The limit above which "NA" is shown: 33 percent.
NotAvailableAbove == 330

\* The filter of getLimit keeping a point whose metric stays below the
\* threshold only when it exceeds it strictly.
validPoints_Strict(mu_data, metric, levelIndex, threshold) ==
    SelectSeq(mu_data,
              LAMBDA d : Gt(Times100(OrZero(MetricValue(d, metric, levelIndex))),
                            threshold))

\* The filter of getLimit keeping the points that stay at or below the
\* threshold.
validPoints_AtMost(mu_data, metric, levelIndex, threshold) ==
    SelectSeq(mu_data,
              LAMBDA d : Le(Times100(OrZero(MetricValue(d, metric, levelIndex))),
                            threshold))

\* The points that meet the threshold.
validPoints(mu_data, metric, levelIndex, threshold) ==
    SelectSeq(mu_data,
              LAMBDA d : Ge(Times100(OrZero(MetricValue(d, metric, levelIndex))),
                            threshold))

\* getLimit(threshold, type) within renderSummaryTable(metric, levelIndex).
getLimit(result, metric, levelIndex, threshold, type) ==
    LET valid == validPoints(result.mu_data, metric, levelIndex, threshold)
        mus    == [ i \in 1 .. Len(valid) |-> Times100(valid[i].mu) ]
        biases == [ i \in 1 .. Len(valid) |-> Times100(valid[i].bias) ]
    IN  IF Len(valid) = 0 THEN "NO"
        ELSE IF type = "mu"
        THEN LET maxMu == MathMaxOf(mus)
             IN  IF maxMu > NotAvailableAbove THEN "NA" ELSE toFixed1(maxMu)
        ELSE IF type = "bias_pos"
        THEN LET maxBias == MathMaxOf(biases)
             IN  IF maxBias > NotAvailableAbove THEN "NA" ELSE toFixed1(maxBias)
        ELSE LET minBias == MathMinOf(biases)
             IN  IF MathAbs(minBias) > NotAvailableAbove THEN "NA"
                 ELSE toFixed1(minBias)

\* The colour cascade testing the minimum threshold first.
Colour_MinFirst(val, thresholds, usePastelColors) ==
    IF usePastelColors
    THEN IF Ge(val, thresholds.min) THEN "#F4D03F"
         ELSE IF Ge(val, thresholds.des) THEN "#5DADE2"
         ELSE IF Ge(val, thresholds.opt) THEN "#76C7C0"
         ELSE "#EC7063"
    ELSE IF Ge(val, thresholds.min) THEN "rgb(166, 0, 0)"
         ELSE IF Ge(val, thresholds.des) THEN "rgb(0, 176, 0)"
         ELSE IF Ge(val, thresholds.opt) THEN "rgb(0, 0, 255)"
         ELSE "rgb(200, 200, 200)"

\* The colour of a marker of the scatter plot, from its metric in percent.
Colour(val, thresholds, usePastelColors) ==
    IF usePastelColors
    THEN IF Ge(val, thresholds.opt) THEN "#76C7C0"
         ELSE IF Ge(val, thresholds.des) THEN "#5DADE2"
         ELSE IF Ge(val, thresholds.min) THEN "#F4D03F"
         ELSE "#EC7063"
    ELSE IF Ge(val, thresholds.opt) THEN "rgb(0, 0, 255)"
         ELSE IF Ge(val, thresholds.des) THEN "rgb(0, 176, 0)"
         ELSE IF Ge(val, thresholds.min) THEN "rgb(166, 0, 0)"
         ELSE "rgb(200, 200, 200)"

\* The bucket a colour stands for, by its place in the cascade.
Bucket(colour) ==
    IF colour \in { "#76C7C0", "rgb(0, 0, 255)" } THEN "optimal"
    ELSE IF colour \in { "#5DADE2", "rgb(0, 176, 0)" } THEN "desirable"
    ELSE IF colour \in { "#F4D03F", "rgb(166, 0, 0)" } THEN "min"
    ELSE "below-min"

\* z_pct of renderScatterPlot(metric, title, levelIndex).
z_pct(result, metric, levelIndex) ==
    [ i \in 1 .. Len(result.mu_data) |->
          Times100(OrZero(MetricValue(result.mu_data[i], metric, levelIndex))) ]

-----------------------------------------------------------------------------
(* The table and the plot over a result *)

\* The longest result drawn.
MaxPoints == 2

Metrics == { "agreement", "sensitivity", "specificity" }

\* The overall metric, the first decision limit, and an index past the
\* sublevel arrays.
LevelIndices == { Null, Some(0), Some(1) }

LimitTypes == { "mu", "bias_pos", "bias_neg" }

\* The state in which a result of the imprecision and bias model is shown.
LimitState ==
    [ InitialState EXCEPT !.simulationModel = IB_ANALYTICAL,
                          !.filePath = Some("a.csv"),
                          !.analyteName = Some("glucose") ]

LimitPoints ==
    { SimulationPoint(MakeConfig(LimitState, << 40, 50, 60 >>),
                      [ mu |-> m, bias |-> b ], t) :
          m \in { 0, 333 }, b \in { -340, 0, 340 }, t \in TrialOutcomes }

LimitResults ==
    { [ mu_data |-> s, names |-> Names(MakeConfig(LimitState, << 40, 50, 60 >>)) ] :
          s \in UNION { [ 1 .. n -> LimitPoints ] : n \in 0 .. MaxPoints } }

\* What the user types into a threshold input: nothing, or 85.
LimitThresholdTexts == { << >>, << 850 >> }

\* A run has ended and its result is on the screen.
InitLimits ==
    /\ state = LimitState
    /\ columns = FileColumns("a.csv")
    /\ results \in { Some(r) : r \in LimitResults }
    /\ originalData = ColumnData("a.csv", "glucose")
    /\ dataCount = Some(3)
    /\ isSimulating = FALSE
    /\ progress = 100
    /\ pc = "idle"
    /\ closure = Null
    /\ listening = FALSE
    /\ config = Null
    /\ engine = Null
    /\ events = << >>
    /\ reply = Null
    /\ fetches = { }
    /\ outcome = "ok"
    /\ touched = FALSE
    /\ sublevelTab = results[1].names[1]

NextLimits ==
    \/ \E text \in LimitThresholdTexts : SetThresholdMin(text)
    \/ \E text \in LimitThresholdTexts : SetThresholdDes(text)
    \/ \E text \in LimitThresholdTexts : SetThresholdOpt(text)

SpecLimits == InitLimits /\ [][NextLimits]_vars

\* C7 as stated: getLimit shows "NO" exactly when no grid point has
\* metric x 100 >= t; otherwise the limit is the maximum of mu x 100, the
\* maximum of bias x 100 or the minimum of bias x 100 over the points with
\* metric x 100 >= t, and "NA" is shown in place of the number exactly when
\* the magnitude of the limit exceeds 33.
C7_LimitIsFilteredExtremum ==
    results # Null =>
        \A metric \in Metrics, levelIndex \in LevelIndices,
           type \in LimitTypes,
           threshold \in { state.agreementThresholds.min,
                           state.agreementThresholds.des,
                           state.agreementThresholds.opt } :
            LET mu_data == results[1].mu_data
                z     == z_pct(results[1], metric, levelIndex)
                meets == { i \in 1 .. Len(mu_data) : Ge(z[i], threshold) }
                of    == IF type = "mu"
                         THEN { Times100(mu_data[i].mu) : i \in meets }
                         ELSE { Times100(mu_data[i].bias) : i \in meets }
                limit == IF type = "bias_neg"
                         THEN CHOOSE v \in of : \A w \in of : v <= w
                         ELSE CHOOSE v \in of : \A w \in of : v >= w
                shown == getLimit(results[1], metric, levelIndex, threshold, type)
            IN  /\ shown = "NO" <=> meets = { }
                /\ meets # { } =>
                      /\ shown = "NA" <=> MathAbs(limit) > NotAvailableAbove
                      /\ shown # "NA" => shown = toFixed1(limit)

\* C7, amended: as above, but "NA" is shown exactly when the mu limit or the
\* positive-bias limit itself exceeds 33, or the magnitude of the
\* negative-bias limit exceeds 33.
C7_LimitIsFilteredExtremumSigned ==
    results # Null =>
        \A metric \in Metrics, levelIndex \in LevelIndices,
           type \in LimitTypes,
           threshold \in { state.agreementThresholds.min,
                           state.agreementThresholds.des,
                           state.agreementThresholds.opt } :
            LET mu_data == results[1].mu_data
                z     == z_pct(results[1], metric, levelIndex)
                meets == { i \in 1 .. Len(mu_data) : Ge(z[i], threshold) }
                of    == IF type = "mu"
                         THEN { Times100(mu_data[i].mu) : i \in meets }
                         ELSE { Times100(mu_data[i].bias) : i \in meets }
                limit == IF type = "bias_neg"
                         THEN CHOOSE v \in of : \A w \in of : v <= w
                         ELSE CHOOSE v \in of : \A w \in of : v >= w
                shown == getLimit(results[1], metric, levelIndex, threshold, type)
            IN  /\ shown = "NO" <=> meets = { }
                /\ meets # { } =>
                      /\ shown = "NA" <=> IF type = "bias_neg"
                                       THEN MathAbs(limit) > NotAvailableAbove
                                       ELSE limit > NotAvailableAbove
                      /\ shown # "NA" => shown = toFixed1(limit)

\* The only point meeting the minimum threshold has a bias of -34 percent:
\* the positive-bias limit is shown as a number, the negative-bias one is not.
C7_Witness ==
    /\ results # Null
    /\ getLimit(results[1], "agreement", Null,
                state.agreementThresholds.min, "bias_pos") = "-34.0"
    /\ getLimit(results[1], "agreement", Null,
                state.agreementThresholds.min, "bias_neg") = "NA"
    /\ getLimit(results[1], "agreement", Null,
                state.agreementThresholds.opt, "mu") = "NO"

\* C8: with thresholds min <= des <= opt, the colour of every marker stands
\* for the one bucket its metric x 100 falls into: below-min iff below min,
\* min iff in [min, des), desirable iff in [des, opt), optimal iff at least
\* opt; with thresholds 90, 95, 99 a metric of 0.80 is below-min.
C8_FourBuckets ==
    /\ Bucket(Colour(Times100(800), [ min |-> 900, des |-> 950, opt |-> 990 ],
                     FALSE)) = "below-min"
    /\ (/\ results # Null
        /\ Le(state.agreementThresholds.min, state.agreementThresholds.des)
        /\ Le(state.agreementThresholds.des, state.agreementThresholds.opt)) =>
          \A metric \in Metrics, levelIndex \in LevelIndices,
             usePastelColors \in BOOLEAN :
              LET z == z_pct(results[1], metric, levelIndex)
                  t == state.agreementThresholds
              IN  \A i \in 1 .. Len(z) :
                      LET bucket == Bucket(Colour(z[i], t, usePastelColors))
                      IN  /\ bucket = "below-min" <=> z[i] < t.min
                          /\ bucket = "min" <=> (t.min <= z[i] /\ z[i] < t.des)
                          /\ bucket = "desirable" <=> (t.des <= z[i] /\ z[i] < t.opt)
                          /\ bucket = "optimal" <=> z[i] >= t.opt

\* Under thresholds 85, 85, 99 one result holds a point whose agreement
\* (0.80) is below-min and whose sensitivity (0.90) is desirable, and a
\* point whose sensitivity (1.00) is optimal.
C8_Witness ==
    /\ results # Null
    /\ state.agreementThresholds = [ min |-> 850, des |-> 850, opt |-> 990 ]
    /\ Len(results[1].mu_data) = 2
    /\ Bucket(Colour(z_pct(results[1], "agreement", Null)[1],
                     state.agreementThresholds, FALSE)) = "below-min"
    /\ Bucket(Colour(z_pct(results[1], "sensitivity", Null)[1],
                     state.agreementThresholds, FALSE)) = "desirable"
    /\ Bucket(Colour(z_pct(results[1], "sensitivity", Null)[2],
                     state.agreementThresholds, TRUE)) = "optimal"

-----------------------------------------------------------------------------
(* The shape of a result *)

\* C15: in every result, returned or stored, the three sublevel arrays of
\* every grid point are as long as the list of decision limits of its
\* config, which is as long as names; so every index of names (from 0)
\* addresses an entry of each sublevel array.
C15_SublevelLengths ==
    /\ (reply # Null /\ reply[1].ok) =>
          LET r == reply[1].result[1]
          IN  /\ Len(r.names) = Len(config[1].cdls)
              /\ \A i \in 1 .. Len(r.mu_data) :
                    /\ Len(r.mu_data[i].sublevel_agreement) = Len(config[1].cdls)
                    /\ Len(r.mu_data[i].sublevel_sensitivity) = Len(config[1].cdls)
                    /\ Len(r.mu_data[i].sublevel_specificity) = Len(config[1].cdls)
    /\ results # Null =>
          \A i \in 1 .. Len(results[1].mu_data) :
              /\ Len(results[1].mu_data[i].sublevel_agreement) = Len(results[1].names)
              /\ Len(results[1].mu_data[i].sublevel_sensitivity) = Len(results[1].names)
              /\ Len(results[1].mu_data[i].sublevel_specificity) = Len(results[1].names)
              /\ \A idx \in 0 .. Len(results[1].names) - 1, metric \in Metrics :
                    MetricValue(results[1].mu_data[i], metric, Some(idx)) # Null

\* The result of a run with two decision limits is stored.
C15_Witness ==
    /\ results # Null
    /\ Len(results[1].names) = 2
    /\ Len(results[1].mu_data) > 1

-----------------------------------------------------------------------------
(* The metrics of a result *)

\* The lists of decision limits run: 5.0; 4.5 and 5.5; 7.0.
EngineCdls == { << 50 >>, << 45, 55 >>, << 70 >> }

\* The coefficients of biological variation run: none, 5.0.
EngineCvs == { 0, 50 }

\* The settings a run is started with: the glucose column of a.csv, custom
\* boundaries with a mu step of 20.0 and an imprecision and bias step of
\* 35.0, so that the grid points are mu 0 and 20 percent, or bias -35, 0 and
\* 35 percent at imprecision 0.
EngineStates ==
    { [ InitialState EXCEPT !.filePath = Some("a.csv"),
                            !.analyteName = Some("glucose"),
                            !.simulationModel = model,
                            !.cdls = cdls,
                            !.biologicalVariation = cv,
                            !.useCustomBoundaries = TRUE,
                            !.stepSizeMu = 200,
                            !.stepSizeImpBias = 350 ] :
          model \in SIMULATION_MODELS, cdls \in EngineCdls, cv \in EngineCvs }

\* Simulate has been clicked: handleSimulate is at the await of listen.
InitEngine ==
    /\ state \in EngineStates
    /\ columns = FileColumns("a.csv")
    /\ results = Null
    /\ originalData = Null
    /\ dataCount = Some(3)
    /\ isSimulating = TRUE
    /\ progress = 0
    /\ pc = "listen"
    /\ closure = Some(state)
    /\ listening = FALSE
    /\ config = Null
    /\ engine = Null
    /\ events = << >>
    /\ reply = Null
    /\ fetches = { }
    /\ outcome = "none"
    /\ touched = FALSE
    /\ sublevelTab = << >>

SpecEngine == InitEngine /\ [][RunSteps]_vars

\* C16: every agreement, sensitivity and specificity of a result, overall
\* and per decision limit, lies in [0, 1]; a sensitivity or specificity
\* whose denominator is zero (no value above the limit, no value at or
\* below it) is 0.
C16_MetricsInUnitInterval ==
    (reply # Null /\ reply[1].ok) =>
        LET r == reply[1].result[1]
            c == config[1]
        IN  \A k \in 1 .. Len(r.mu_data) :
                LET d == r.mu_data[k]
                IN  /\ d.agreement \in 0 .. 1000
                    /\ d.sensitivity \in 0 .. 1000
                    /\ d.specificity \in 0 .. 1000
                    /\ \A i \in 1 .. Len(c.cdls) :
                          /\ d.sublevel_agreement[i] \in 0 .. 1000
                          /\ d.sublevel_sensitivity[i] \in 0 .. 1000
                          /\ d.sublevel_specificity[i] \in 0 .. 1000
                          /\ (\A j \in 1 .. Len(c.data) : ~(c.data[j] > c.cdls[i]))
                                => d.sublevel_sensitivity[i] = 0
                          /\ (\A j \in 1 .. Len(c.data) : c.data[j] > c.cdls[i])
                                => d.sublevel_specificity[i] = 0

\* A result under the limit 7.0, above every value: the sensitivity has no
\* positive trial and is 0, while another metric of the result is a proper
\* fraction.
C16_Witness ==
    /\ reply # Null /\ reply[1].ok
    /\ config[1].cdls = << 70 >>
    /\ reply[1].result[1].mu_data[1].sensitivity = 0
    /\ \E k \in 1 .. Len(reply[1].result[1].mu_data) :
          LET d == reply[1].result[1].mu_data[k]
          IN  d.specificity > 0 /\ d.specificity < 1000

-----------------------------------------------------------------------------
(* The grid of a result *)

\* The settings a run is started with: an analytical model and custom
\* boundaries with a mu step of 10.0 under a maximum of 30.0 or 33.1, or an
\* imprecision and bias step of 20.0 under maxima of 10.0 or 20.0 for the
\* imprecision and of 5.0 or 10.0 for the bias.
GridStates ==
    { [ InitialState EXCEPT !.filePath = Some("a.csv"),
                            !.analyteName = Some("glucose"),
                            !.simulationModel = model,
                            !.useCustomBoundaries = TRUE,
                            !.maxMu = maxMu,
                            !.stepSizeMu = 100,
                            !.maxImprecision = maxImprecision,
                            !.maxBias = maxBias,
                            !.stepSizeImpBias = 200 ] :
          model \in { MU_ANALYTICAL, IB_ANALYTICAL },
          maxMu \in { 300, 331 },
          maxImprecision \in { 100, 200 },
          maxBias \in { 50, 100 } }

\* Simulate has been clicked: handleSimulate is at the await of listen.
InitGrid ==
    /\ state \in GridStates
    /\ columns = FileColumns("a.csv")
    /\ results = Null
    /\ originalData = Null
    /\ dataCount = Some(3)
    /\ isSimulating = TRUE
    /\ progress = 0
    /\ pc = "listen"
    /\ closure = Some(state)
    /\ listening = FALSE
    /\ config = Null
    /\ engine = Null
    /\ events = << >>
    /\ reply = Null
    /\ fetches = { }
    /\ outcome = "none"
    /\ touched = FALSE
    /\ sublevelTab = << >>

SpecGrid == InitGrid /\ [][RunSteps]_vars

\* C18: a result has floor(max_mu / step_size_mu) + 1 grid points under a
\* measurement-uncertainty variant, and the product of the counts of the
\* imprecision axis and of the bias axis under an imprecision and bias
\* variant; the last point of an axis is within its maximum and the next
\* step would leave it.
C18_GridSize ==
    (reply # Null /\ reply[1].ok) =>
        LET c == config[1]
            mu_data == reply[1].result[1].mu_data
            n == Len(mu_data)
        IN  IF IsMuVariant(c.model)
            THEN /\ n = c.max_mu[1] \div c.step_size_mu[1] + 1
                 /\ mu_data[n].mu <= c.max_mu[1]
                 /\ mu_data[n].mu + c.step_size_mu[1] > c.max_mu[1]
            ELSE /\ n = (c.max_imprecision[1] \div c.step_size_imp_bias[1] + 1)
                       * ((2 * c.max_bias[1]) \div c.step_size_imp_bias[1] + 1)
                 /\ n = Cardinality({ mu_data[i].mu : i \in 1 .. n })
                          * Cardinality({ mu_data[i].bias : i \in 1 .. n })
                 /\ mu_data[n].mu <= c.max_imprecision[1]
                 /\ mu_data[n].mu + c.step_size_imp_bias[1] > c.max_imprecision[1]
                 /\ mu_data[n].bias <= c.max_bias[1]
                 /\ mu_data[n].bias + c.step_size_imp_bias[1] > c.max_bias[1]

\* A result of two imprecisions by two biases.
C18_Witness ==
    /\ reply # Null /\ reply[1].ok
    /\ ~IsMuVariant(config[1].model)
    /\ Len(reply[1].result[1].mu_data) = 4

C20_ConstructionOrder ==
    (reply # Null /\ reply[1].ok) =>
        LET c == config[1]
            mu_data == reply[1].result[1].mu_data
            n == Len(mu_data)
        IN  IF IsMuVariant(c.model)
            THEN /\ \A i \in 1 .. n :
                       mu_data[i].mu = (i - 1) * c.step_size_mu[1] /\ mu_data[i].bias = 0
                 /\ mu_data[n].mu + c.step_size_mu[1] > c.max_mu[1]
            ELSE /\ mu_data[1].mu = 0 /\ mu_data[1].bias = -c.max_bias[1]
                 /\ \A i \in 1 .. n - 1 :
                       \/ /\ mu_data[i + 1].mu = mu_data[i].mu
                          /\ mu_data[i + 1].bias = mu_data[i].bias + c.step_size_imp_bias[1]
                          /\ mu_data[i + 1].bias <= c.max_bias[1]
                       \/ /\ mu_data[i + 1].mu = mu_data[i].mu + c.step_size_imp_bias[1]
                          /\ mu_data[i + 1].bias = -c.max_bias[1]
                          /\ mu_data[i].bias + c.step_size_imp_bias[1] > c.max_bias[1]
                 /\ mu_data[n].mu + c.step_size_imp_bias[1] > c.max_imprecision[1]
                 /\ mu_data[n].bias + c.step_size_imp_bias[1] > c.max_bias[1]

\* A result of two imprecisions by two biases, the two biases of
\* imprecision 0 first.
C20_Witness ==
    /\ reply # Null /\ reply[1].ok
    /\ ~IsMuVariant(config[1].model)
    /\ Len(reply[1].result[1].mu_data) = 4
    /\ reply[1].result[1].mu_data[2].mu = 0
    /\ reply[1].result[1].mu_data[2].bias = 100
    /\ reply[1].result[1].mu_data[3].mu = 200
    /\ reply[1].result[1].mu_data[3].bias = -100

-----------------------------------------------------------------------------
(* The progress subscription of a run *)

\* C21: the progress subscription brackets the invocation.  A step that
\* invokes run_simulation_async (the config is handed over) is taken with
\* the listener registered; the listener is removed only by the finally
\* block, that is once the invocation has answered or the data load has
\* failed and no invocation is made; the click that starts a run sets
\* progress to 0; and while no run is under way no step changes progress.
C21_SubscriptionBracketsInvocation ==
    [][ /\ (config = Null /\ config' # Null) => (listening /\ listening')
        /\ (pc' = "invoke") => listening'
        /\ (listening /\ ~listening') =>
              /\ pc' = "idle"
              /\ \/ pc = "invoke" /\ reply # Null
                 \/ pc = "load" /\ config = Null
        /\ (pc = "idle" /\ pc' # "idle") => progress' = 0
        /\ (pc = "idle" /\ pc' = "idle") => progress' = progress
      ]_vars

\* A run has succeeded after a notification was shown, and the listener is
\* gone although notifications of the run were still under way to it.
C21_Witness ==
    /\ pc = "idle"
    /\ outcome = "ok"
    /\ progress > 0
    /\ progress < 100
    /\ ~listening
    /\ ~isSimulating

-----------------------------------------------------------------------------
(* Results and the selected model *)

\* C22: whenever results is non-null it was produced by a run configured
\* with the currently selected simulation model.  Changing the model clears
\* results, and a step that stores a result stores the result of a config
\* whose model is the model selected at that moment.
C22_ResultsOfSelectedModel ==
    [][ /\ (state'.simulationModel # state.simulationModel) => results' = Null
        /\ (results' # Null /\ results' # results) =>
              /\ config # Null
              /\ config[1].model = state'.simulationModel
      ]_vars

-----------------------------------------------------------------------------
(* The end of a run *)

\* Every promise awaited by handleSimulate settles and the back end goes on
\* working: a step of the run under way is eventually taken.
SpecLive == Init /\ [][Next]_vars /\ WF_vars(RunSteps \/ LoadRejected)

\* C23: every started run eventually returns isSimulating to false, whether
\* the progress subscription, the data load or the simulation invocation
\* succeeds or fails.
C23_RunEventuallyEnds == isSimulating ~> ~isSimulating

-----------------------------------------------------------------------------
(* One run at a time *)

\* C24: at most one run_simulation_async invocation is in flight at any
\* time.  A step that starts a run is taken with isSimulating false, with no
\* run and no invocation under way, and with a file path and a measurand
\* column selected; an invocation is in flight only while isSimulating is
\* true, and while it is true no step starts a run.
C24_OneRunAtATime ==
    [][ /\ (closure' # Null /\ (closure = Null \/ (pc # "listen" /\ pc' = "listen"))) =>
              /\ ~isSimulating
              /\ isSimulating'
              /\ pc = "idle"
              /\ config = Null /\ engine = Null /\ reply = Null
              /\ state.filePath # Null
              /\ state.analyteName # Null
        /\ (config' # Null \/ engine' # Null) => (isSimulating' /\ pc' = "invoke")
      ]_vars

\* A second run has its invocation in flight: the result of an earlier run
\* is still stored.
C24_Witness ==
    /\ results # Null
    /\ pc = "invoke"
    /\ isSimulating
    /\ engine # Null

-----------------------------------------------------------------------------
(* The data count *)

\* C25: whenever no load_column_data request of fetchDataCount is pending,
\* dataCount is the number of values of the selected file and column, and
\* null when none is selected or the load of that column fails.
C25_DataCountOfSelection ==
    (fetches = { }) =>
        dataCount =
            IF state.filePath = Null \/ state.analyteName = Null THEN Null
            ELSE IF ColumnData(state.filePath[1], state.analyteName[1]) = Null
                 THEN Null
                 ELSE Some(Len(ColumnData(state.filePath[1], state.analyteName[1])[1]))

-----------------------------------------------------------------------------
(* The model variant in the results view and in the sidebar *)

\* Results.tsx: isMuModel, the test deciding on the bias columns of the
\* limits table, the 3D plot and the kind of 2D plot.
isMuModel(simulationModel) == simulationModel = MU_ANALYTICAL

\* C26: for each of the four model variants the results view and the
\* sidebar classify the selected model the same way: one-dimensional for
\* both measurement-uncertainty variants, two-dimensional for both
\* imprecision-and-bias variants.
C26_SameClassification ==
    isMuModel(state.simulationModel) = IsMuSidebar(state.simulationModel)

-----------------------------------------------------------------------------
(* The sublevel view *)

\* A tab of the sublevel view is clicked: setSublevelTab(name).  The tabs
\* are those of the result shown; none is shown during a run.
SetSublevelTab(name) ==
    /\ ~isSimulating
    /\ results # Null
    /\ \E idx \in 1 .. Len(results[1].names) : results[1].names[idx] = name
    /\ sublevelTab' = name
    /\ UNCHANGED << state, columns, results, originalData, dataCount,
                    isSimulating, progress, pc, closure, listening, config,
                    engine, events, reply, fetches, outcome, touched >>

\* The decision limits held when the file has been opened: 5.0 alone, or
\* 5.1 and 5.4, which read the same without decimal places.
TabStates ==
    { [ InitialState EXCEPT !.filePath = Some("a.csv"),
                            !.analyteName = Some("glucose"),
                            !.cdls = cdls ] : cdls \in { << 50 >>, << 51, 54 >> } }

\* What the user types into the first decision-limit input: 5.0 or 7.0.
TabCdlTexts == { << 50 >>, << 70 >> }

\* What the user types into the Decimal Places input: nothing, or 1.
DecimalPlacesTexts == { << >>, << 10 >> }

InitTabs ==
    /\ state \in TabStates
    /\ columns = FileColumns("a.csv")
    /\ results = Null
    /\ originalData = Null
    /\ dataCount = Some(3)
    /\ isSimulating = FALSE
    /\ progress = 0
    /\ pc = "idle"
    /\ closure = Null
    /\ listening = FALSE
    /\ config = Null
    /\ engine = Null
    /\ events = << >>
    /\ reply = Null
    /\ fetches = { }
    /\ outcome = "none"
    /\ touched = FALSE
    /\ sublevelTab = << >>

NextTabs ==
    \/ Run
    \/ \E text \in TabCdlTexts : pc = "idle" /\ UpdateCDL(1, text)
    \/ \E text \in DecimalPlacesTexts : pc = "idle" /\ SetDecimalPlaces(text)
    \/ \E name \in { FormatFixed(x, places) : x \in { 50, 51, 54, 70 },
                                               places \in { 0, 1 } } :
          SetSublevelTab(name)

SpecTabs == InitTabs /\ [][NextTabs]_vars

\* The panels of the sublevel view: one for each name of the result equal
\* to the selected tab (results.names.map(... sublevelTab === name && ...)).
SublevelPanels ==
    { idx \in 1 .. Len(results[1].names) : results[1].names[idx] = sublevelTab }

\* C27: whenever a result with at least one decision limit is shown, the
\* selected sublevel tab is one of the names of the result and matches
\* exactly one of them, so exactly one panel is displayed.
C27_ExactlyOnePanel ==
    (results # Null /\ ~isSimulating /\ Len(results[1].names) > 0) =>
        Cardinality(SublevelPanels) = 1

-----------------------------------------------------------------------------
(* The limits of the three thresholds *)

\* The values mu x 100 and bias x 100 of the points of a result.
LimitValues(result) ==
    { Times100(result.mu_data[i].mu) : i \in 1 .. Len(result.mu_data) }
        \cup { Times100(result.mu_data[i].bias) : i \in 1 .. Len(result.mu_data) }

\* The points of a sequence, as a set.
Range(seq) == { seq[i] : i \in 1 .. Len(seq) }

\* C28: with thresholds min <= des <= opt the limits shown are antitone in
\* the threshold.  For a lower and a higher threshold of the three, the
\* points meeting the higher one are among those meeting the lower one;
\* "NO" at the lower threshold implies "NO" at the higher one; and the
\* maximal mu and the maximal bias shown for the higher threshold are at
\* most those shown for the lower one ("NA", above 33, at the higher
\* threshold implies "NA" at the lower one).
C28_LimitsAntitone ==
    (/\ results # Null
     /\ Le(state.agreementThresholds.min, state.agreementThresholds.des)
     /\ Le(state.agreementThresholds.des, state.agreementThresholds.opt)) =>
        \A metric \in Metrics, levelIndex \in LevelIndices,
           pair \in { << state.agreementThresholds.min, state.agreementThresholds.des >>,
                      << state.agreementThresholds.des, state.agreementThresholds.opt >>,
                      << state.agreementThresholds.min, state.agreementThresholds.opt >> } :
            LET lower  == pair[1]
                higher == pair[2]
                shown(threshold, type) ==
                    getLimit(results[1], metric, levelIndex, threshold, type)
            IN  /\ Range(validPoints(results[1].mu_data, metric, levelIndex, higher))
                      \subseteq
                   Range(validPoints(results[1].mu_data, metric, levelIndex, lower))
                /\ \A type \in LimitTypes :
                      shown(lower, type) = "NO" => shown(higher, type) = "NO"
                /\ \A type \in { "mu", "bias_pos" } :
                      /\ shown(higher, type) = "NA" => shown(lower, type) = "NA"
                      /\ \A v1, v2 \in LimitValues(results[1]) :
                            (/\ shown(lower, type) = toFixed1(v1)
                             /\ shown(higher, type) = toFixed1(v2)) => v2 <= v1

\* Sensitivity with the thresholds 85 <= 95 <= 99: a point at mu = 33.3
\* meets the minimum threshold only and a point at mu = 0 meets all three,
\* so the mu limit is "NA" for the minimum and "0.0" for the two others.
C28_Witness ==
    /\ results # Null
    /\ state.agreementThresholds.min = 850
    /\ state.agreementThresholds.des = 950
    /\ state.agreementThresholds.opt = 990
    /\ getLimit(results[1], "sensitivity", Null, 850, "mu") = "NA"
    /\ getLimit(results[1], "sensitivity", Null, 950, "mu") = "0.0"
    /\ getLimit(results[1], "sensitivity", Null, 990, "mu") = "0.0"

-----------------------------------------------------------------------------
(* The file and the measurand *)

NextUpload ==
    \/ Run
    \/ LoadRejected
    \/ \E selected \in Files : HandleUpload(selected)
    \/ \E name \in { "glucose", "comment" } : SelectAnalyte(name)
    \/ FetchDataCountDone

SpecUpload == Init /\ [][NextUpload]_vars

\* The columns offered are those of the file at filePath, and a measurand
\* selected is one of them.
AnalyteOfFile ==
    /\ state.filePath = Null => (columns = << >> /\ state.analyteName = Null)
    /\ state.filePath # Null => columns = FileColumns(state.filePath[1])
    /\ state.analyteName # Null =>
          \E i \in 1 .. Len(columns) : columns[i] = state.analyteName[1]

\* C29: after any sequence of uploads and column selections a non-null
\* analyteName is one of the columns of the file at filePath.  A step that
\* changes filePath or columns is a successful upload, which sets
\* analyteName to the first column of the file, or to null when the file
\* has no columns; a step that changes analyteName otherwise leaves
\* filePath and columns as they are.
C29_AnalyteIsColumnOfFile ==
    [][ /\ AnalyteOfFile'
        /\ (state'.filePath # state.filePath \/ columns' # columns) =>
              /\ state'.filePath # Null
              /\ columns' = FileColumns(state'.filePath[1])
              /\ state'.analyteName = IF Len(columns') > 0 THEN Some(columns'[1])
                                      ELSE Null
      ]_vars

\* b.csv was opened after the column comment of a.csv had been selected:
\* the request for the count of that column is still pending.
C29_Witness ==
    /\ state.filePath = Some("b.csv")
    /\ state.analyteName = Some("glucose")
    /\ columns = << "glucose" >>
    /\ [ path |-> "a.csv", column |-> "comment" ] \in fetches

=============================================================================
